---- MODULE Spec2Model ----
(***************************************************************************)
(* Model of the chat-log service in main.py: the rule-based reply          *)
(* generator, the conversation / message / attachment handlers, and the    *)
(* document store they call.  Text is modelled as sequences of one-        *)
(* character strings, identifiers as natural numbers with their 24-digit   *)
(* hexadecimal rendering, payloads as sequences of bytes.                  *)
(***************************************************************************)
EXTENDS Integers, Sequences, FiniteSets, TLC

VARIABLES
    db,        \* the store: collection name -> documents in insertion order
    nextOid,   \* the identifier the store assigns to the next document
    clock,     \* the creation time the store stamps on the next document
    pc,        \* per worker: where its chat call stands
    loc,       \* per worker: the locals of its chat call
    last,      \* the response returned by the latest step, if it returned one
    turns,     \* history: completed chat calls per conversation identifier
    uploads    \* history: what was uploaded under each attachment identifier

vars == <<db, nextOid, clock, pc, loc, last, turns, uploads>>

(***************************************************************************)
(* Bounds of the model.                                                    *)
(***************************************************************************)
MaxTokens == 3
MaxConversations == 2
MaxTurns == 2
MaxAttachments == 1
MaxPayloadLen == 3
NumWorkers == 2

(***************************************************************************)
(* Optional values: None is the empty tuple, Some(x) the one-element one.  *)
(***************************************************************************)
None == <<>>

Some(x) == <<x>>

(***************************************************************************)
(* Text helpers: str.strip, str.lower, the `in` substring test, slicing.   *)
(***************************************************************************)
Whitespace == {" ", "\t", "\n"}

UpperCase ==
    << "A", "B", "C", "D", "E", "F", "G", "H", "I", "J", "K", "L", "M",
       "N", "O", "P", "Q", "R", "S", "T", "U", "V", "W", "X", "Y", "Z" >>

LowerCase ==
    << "a", "b", "c", "d", "e", "f", "g", "h", "i", "j", "k", "l", "m",
       "n", "o", "p", "q", "r", "s", "t", "u", "v", "w", "x", "y", "z" >>

LowerChar(c) ==
    IF \E i \in 1..26 : UpperCase[i] = c
    THEN LowerCase[CHOOSE i \in 1..26 : UpperCase[i] = c]
    ELSE c

Lower(s) == [i \in 1..Len(s) |-> LowerChar(s[i])]

RECURSIVE LStrip(_)
LStrip(s) ==
    IF s = <<>> THEN <<>>
    ELSE IF Head(s) \in Whitespace THEN LStrip(Tail(s)) ELSE s

RECURSIVE RStrip(_)
RStrip(s) ==
    IF s = <<>> THEN <<>>
    ELSE IF s[Len(s)] \in Whitespace THEN RStrip(SubSeq(s, 1, Len(s) - 1))
    ELSE s

Strip(s) == RStrip(LStrip(s))

Contains(s, sub) ==
    \E i \in 0..(Len(s) - Len(sub)) : SubSeq(s, i + 1, i + Len(sub)) = sub

Take(s, n) == SubSeq(s, 1, IF Len(s) < n THEN Len(s) ELSE n)

(***************************************************************************)
(* String literals of main.py.                                             *)
(***************************************************************************)
ReplyEmpty ==
    << "I", "'", "m", " ", "h", "e", "r", "e", "!", " ", "A", "s", "k", " ",
       "m", "e", " ", "a", "n", "y", "t", "h", "i", "n", "g", "." >>

ReplyJoke ==
    << "H", "e", "r", "e", "'", "s", " ", "o", "n", "e", ":", " ", "W", "h",
       "y", " ", "d", "o", " ", "p", "r", "o", "g", "r", "a", "m", "m", "e",
       "r", "s", " ", "p", "r", "e", "f", "e", "r", " ", "d", "a", "r", "k",
       " ", "m", "o", "d", "e", "?", " ", "B", "e", "c", "a", "u", "s", "e",
       " ", "l", "i", "g", "h", "t", " ", "a", "t", "t", "r", "a", "c", "t",
       "s", " ", "b", "u", "g", "s", "." >>

ReplyHello ==
    << "H", "e", "l", "l", "o", "!", " ", "I", "'", "m", " ", "y", "o", "u",
       "r", " ", "a", "l", "w", "a", "y", "s", "-", "o", "n", " ", "A", "I",
       ".", " ", "H", "o", "w", " ", "c", "a", "n", " ", "I", " ", "h", "e",
       "l", "p", " ", "t", "o", "d", "a", "y", "?" >>

ReplyHelp ==
    << "T", "e", "l", "l", " ", "m", "e", " ", "w", "h", "a", "t", " ", "y",
       "o", "u", "'", "r", "e", " ", "t", "r", "y", "i", "n", "g", " ", "t",
       "o", " ", "d", "o", ",", " ", "a", "n", "d", " ", "I", "'", "l", "l",
       " ", "b", "r", "e", "a", "k", " ", "i", "t", " ", "i", "n", "t", "o",
       " ", "c", "l", "e", "a", "r", " ", "s", "t", "e", "p", "s", "." >>

ShortPrefix ==
    << "Y", "o", "u", " ", "s", "a", "i", "d", ":", " ", "'" >>

ShortSuffix ==
    << "'", ".", " ", "T", "e", "l", "l", " ", "m", "e", " ", "m", "o", "r",
       "e", " ", "s", "o", " ", "I", " ", "c", "a", "n", " ", "g", "i", "v",
       "e", " ", "a", " ", "b", "e", "t", "t", "e", "r", " ", "a", "n", "s",
       "w", "e", "r", "." >>

LongPrefix ==
    << "H", "e", "r", "e", "'", "s", " ", "a", " ", "q", "u", "i", "c", "k",
       ",", " ", "h", "e", "l", "p", "f", "u", "l", " ", "a", "n", "s", "w",
       "e", "r", " ", "b", "a", "s", "e", "d", " ", "o", "n", " ", "w", "h",
       "a", "t", " ", "y", "o", "u", " ", "a", "s", "k", "e", "d", ":", " " >>

LongSuffix ==
    << "\n", "\n", "I", " ", "c", "a", "n", " ", "a", "l", "s", "o", " ", "p",
       "r", "o", "v", "i", "d", "e", " ", "e", "x", "a", "m", "p", "l", "e",
       "s", ",", " ", "s", "t", "e", "p", "-", "b", "y", "-", "s", "t", "e",
       "p", " ", "g", "u", "i", "d", "e", "s", ",", " ", "o", "r", " ", "s",
       "u", "m", "m", "a", "r", "i", "e", "s", " ", "i", "f", " ", "y", "o",
       "u", " ", "l", "i", "k", "e", "." >>

NewChat ==
    << "N", "e", "w", " ", "C", "h", "a", "t" >>

DefaultFilename ==
    << "d", "o", "w", "n", "l", "o", "a", "d" >>

DefaultContentType ==
    << "a", "p", "p", "l", "i", "c", "a", "t", "i", "o", "n", "/", "o", "c",
       "t", "e", "t", "-", "s", "t", "r", "e", "a", "m" >>

DispositionPrefix ==
    << "a", "t", "t", "a", "c", "h", "m", "e", "n", "t", ";", " ", "f", "i",
       "l", "e", "n", "a", "m", "e", "=", "\"" >>

DownloadPrefix ==
    << "/", "a", "t", "t", "a", "c", "h", "m", "e", "n", "t", "s", "/" >>

ShortLimit == 12

EchoLimit == 300

TitleLimit == 40

WordJoke == << "j", "o", "k", "e" >>

WordHello == << "h", "e", "l", "l", "o" >>

WordHi == << "h", "i" >>

WordHelp == << "h", "e", "l", "p" >>

(***************************************************************************)
(* generate_assistant_reply: the ordered keyword rules.                    *)
(***************************************************************************)
generate_assistant_reply_swapped(user_text) ==
    LET t == Strip(user_text)
        lower == Lower(t)
    IN  IF t = <<>> THEN ReplyEmpty
        ELSE IF Contains(lower, WordHello) \/ Contains(lower, WordHi)
             THEN ReplyHello
        ELSE IF Contains(lower, WordJoke) THEN ReplyJoke
        ELSE IF Contains(lower, WordHelp) THEN ReplyHelp
        ELSE IF Len(t) < ShortLimit THEN ShortPrefix \o t \o ShortSuffix
        ELSE LongPrefix \o Take(t, EchoLimit) \o LongSuffix

generate_assistant_reply(user_text) ==
    LET t == Strip(user_text)
        lower == Lower(t)
    IN  IF t = <<>> THEN ReplyEmpty
        ELSE IF Contains(lower, WordJoke) THEN ReplyJoke
        ELSE IF Contains(lower, WordHello) \/ Contains(lower, WordHi)
             THEN ReplyHello
        ELSE IF Contains(lower, WordHelp) THEN ReplyHelp
        ELSE IF Len(t) < ShortLimit THEN ShortPrefix \o t \o ShortSuffix
        ELSE LongPrefix \o Take(t, EchoLimit) \o LongSuffix

(***************************************************************************)
(* Store identifiers: bson.ObjectId and its canonical 24-digit hex string. *)
(***************************************************************************)
OidLen == 24

HexChars ==
    << "0", "1", "2", "3", "4", "5", "6", "7",
       "8", "9", "a", "b", "c", "d", "e", "f" >>

IsHex(c) == \E i \in 1..16 : HexChars[i] = c

HexVal(c) == (CHOOSE i \in 1..16 : HexChars[i] = c) - 1

RECURSIVE HexOf(_, _)
HexOf(n, k) ==
    IF k = 0 THEN <<>>
    ELSE Append(HexOf(n \div 16, k - 1), HexChars[(n % 16) + 1])

\* str(ObjectId)
StrOid(oid) == HexOf(oid, OidLen)

\* ObjectId(s) raises unless s is 24 hexadecimal characters
ObjectIdValid(s) == Len(s) = OidLen /\ \A i \in 1..Len(s) : IsHex(s[i])

RECURSIVE HexValue(_)
HexValue(s) ==
    IF s = <<>> THEN 0
    ELSE HexValue(SubSeq(s, 1, Len(s) - 1)) * 16 + HexVal(s[Len(s)])

ObjectId(s) == HexValue(s)

\* Python truthiness of an Optional[str]
Truthy(opt) == opt # None /\ opt[1] # <<>>

(***************************************************************************)
(* The document store (database.py): insert assigns the identifier and the *)
(* creation timestamp; find returns the matching documents in insertion    *)
(* order.                                                                  *)
(***************************************************************************)
Stamped(data) == [id |-> nextOid, created_at |-> Some(clock)] @@ data

create_document(coll, data) == [db EXCEPT ![coll] = Append(@, Stamped(data))]

\* a filter is a record of required field values, the empty one matching all
Matches(doc, filter) == \A f \in DOMAIN filter : doc[f] = filter[f]

get_documents(coll, filter) ==
    SelectSeq(db[coll], LAMBDA doc : Matches(doc, filter))

to_str_id(doc) ==
    [f \in DOMAIN doc |->
        IF f = "id" THEN StrOid(doc.id)
        ELSE IF f = "conversation_id" THEN StrOid(doc.conversation_id)
        ELSE doc[f]]

(***************************************************************************)
(* list.sort: stable; raises TypeError when two keys cannot be ordered.    *)
(* A key is <<type, value>>: a str, a datetime, or None.                   *)
(***************************************************************************)
StrKey == <<"str", 0>>

NoneKey == <<"none", 0>>

DateKey(t) == <<"datetime", t>>

Comparable(a, b) == a[1] = b[1] /\ a[1] # "none"

\* keys[i] is the key of the i-th item
SortRaises(keys) ==
    \E i, j \in 1..Len(keys) : i # j /\ ~Comparable(keys[i], keys[j])

RECURSIVE InsertSorted(_, _, _)
InsertSorted(sorted, x, reverse) ==
    IF sorted = <<>> THEN <<x>>
    ELSE LET y == sorted[Len(sorted)]
             before == IF reverse THEN y.key[2] < x.key[2]
                                  ELSE x.key[2] < y.key[2]
         IN  IF before
             THEN Append(InsertSorted(SubSeq(sorted, 1, Len(sorted) - 1),
                                      x, reverse), y)
             ELSE Append(sorted, x)

RECURSIVE SortKeyed(_, _)
SortKeyed(pairs, reverse) ==
    IF pairs = <<>> THEN <<>>
    ELSE InsertSorted(SortKeyed(SubSeq(pairs, 1, Len(pairs) - 1), reverse),
                      pairs[Len(pairs)], reverse)

SortBy(items, keys, reverse) ==
    LET pairs == [i \in 1..Len(items) |-> [key |-> keys[i], item |-> items[i]]]
        sorted == SortKeyed(pairs, reverse)
    IN  [i \in 1..Len(sorted) |-> sorted[i].item]

(***************************************************************************)
(* base64.b64encode / b64decode over byte sequences.  Encoded text is a    *)
(* sequence of alphabet indices 0..63, PadSym standing for "=".            *)
(***************************************************************************)
PadSym == 64

RECURSIVE b64encode(_)
b64encode(data) ==
    IF data = <<>> THEN <<>>
    ELSE IF Len(data) = 1
    THEN << data[1] \div 4, (data[1] % 4) * 16, PadSym, PadSym >>
    ELSE IF Len(data) = 2
    THEN << data[1] \div 4, (data[1] % 4) * 16 + data[2] \div 16,
            (data[2] % 16) * 4, PadSym >>
    ELSE << data[1] \div 4, (data[1] % 4) * 16 + data[2] \div 16,
            (data[2] % 16) * 4 + data[3] \div 64, data[3] % 64 >>
         \o b64encode(SubSeq(data, 4, Len(data)))

b64valid(text) ==
    /\ Len(text) % 4 = 0
    /\ \A i \in 1..Len(text) :
          text[i] = PadSym =>
             /\ i > Len(text) - 2
             /\ i > 2
             /\ \A j \in i..Len(text) : text[j] = PadSym

RECURSIVE b64decode(_)
b64decode(text) ==
    IF text = <<>> THEN <<>>
    ELSE LET a == text[1]
             b == text[2]
             c == text[3]
             d == text[4]
             rest == b64decode(SubSeq(text, 5, Len(text)))
         IN  IF c = PadSym THEN << a * 4 + b \div 16 >>
             ELSE IF d = PadSym
             THEN << a * 4 + b \div 16, (b % 16) * 16 + c \div 4 >>
             ELSE << a * 4 + b \div 16, (b % 16) * 16 + c \div 4,
                     (c % 4) * 64 + d >> \o rest

(***************************************************************************)
(* Responses.                                                              *)
(***************************************************************************)
HTTPException(status_code, detail) ==
    [status |-> status_code, detail |-> detail]

NoResponse == [op |-> "none", status |-> 0]

(***************************************************************************)
(* GET /conversations                                                      *)
(***************************************************************************)
ConversationKey(x) ==
    IF "created_at" \in DOMAIN x THEN DateKey(x.created_at[1]) ELSE StrKey

list_conversations ==
    LET docs == get_documents("conversation", <<>>)
        result == [i \in 1..Len(docs) |->
                      LET d == to_str_id(docs[i])
                      IN  [id |-> d.id, title |-> d.title]]
        keys == [i \in 1..Len(result) |-> ConversationKey(result[i])]
    IN  IF SortRaises(keys)
        THEN HTTPException(500, "Internal Server Error")
        ELSE [status |-> 200, body |-> SortBy(result, keys, TRUE)]

(***************************************************************************)
(* GET /messages                                                           *)
(***************************************************************************)
MessageKey(x) ==
    IF x.created_at = None THEN NoneKey ELSE DateKey(x.created_at[1])

isoformat(t) == <<"iso", t>>

MessageResponse(d) ==
    [id |-> d.id,
     conversation_id |-> d.conversation_id,
     role |-> d.role,
     content |-> d.content,
     attachments |-> d.attachments,
     created_at |-> IF d.created_at # None
                    THEN Some(isoformat(d.created_at[1])) ELSE None]

list_messages_unfiltered(conversation_id) ==
    IF ~ObjectIdValid(conversation_id)
    THEN HTTPException(400, "Invalid conversation_id")
    ELSE LET docs == get_documents("message", <<>>)
             keys == [i \in 1..Len(docs) |-> MessageKey(docs[i])]
         IN  IF SortRaises(keys)
             THEN HTTPException(500, "Internal Server Error")
             ELSE LET sorted == SortBy(docs, keys, FALSE)
                  IN  [status |-> 200,
                       body |-> [i \in 1..Len(sorted) |->
                                    MessageResponse(to_str_id(sorted[i]))]]

list_messages(conversation_id) ==
    IF ~ObjectIdValid(conversation_id)
    THEN HTTPException(400, "Invalid conversation_id")
    ELSE LET conv_oid == ObjectId(conversation_id)
             docs == get_documents("message", [conversation_id |-> conv_oid])
             keys == [i \in 1..Len(docs) |-> MessageKey(docs[i])]
         IN  IF SortRaises(keys)
             THEN HTTPException(500, "Internal Server Error")
             ELSE LET sorted == SortBy(docs, keys, FALSE)
                  IN  [status |-> 200,
                       body |-> [i \in 1..Len(sorted) |->
                                    MessageResponse(to_str_id(sorted[i]))]]

(***************************************************************************)
(* GET /attachments/{attachment_id}                                        *)
(***************************************************************************)
ContentDisposition(filename) == DispositionPrefix \o filename \o <<"\"">>

download_attachment_swapped(attachment_id) ==
    IF ~ObjectIdValid(attachment_id)
    THEN HTTPException(404, "Attachment not found")
    ELSE HTTPException(400, "Invalid attachment id")

download_attachment_raw(attachment_id) ==
    IF ~ObjectIdValid(attachment_id)
    THEN HTTPException(400, "Invalid attachment id")
    ELSE LET oid == ObjectId(attachment_id)
             results == get_documents("attachment", [id |-> oid])
         IN  IF results = <<>>
             THEN HTTPException(404, "Attachment not found")
             ELSE LET att == results[1]
                  IN  [status |-> 200,
                       content |-> att.data_base64,
                       media_type |->
                           IF Truthy(att.content_type)
                           THEN att.content_type[1] ELSE DefaultContentType,
                       content_disposition |->
                           ContentDisposition(IF Truthy(att.filename)
                                              THEN att.filename[1]
                                              ELSE DefaultFilename)]

download_attachment(attachment_id) ==
    IF ~ObjectIdValid(attachment_id)
    THEN HTTPException(400, "Invalid attachment id")
    ELSE LET oid == ObjectId(attachment_id)
             results == get_documents("attachment", [id |-> oid])
         IN  IF results = <<>>
             THEN HTTPException(404, "Attachment not found")
             ELSE LET att == results[1]
                  IN  IF ~b64valid(att.data_base64)
                      THEN HTTPException(500, "Corrupted attachment data")
                      ELSE LET raw == b64decode(att.data_base64)
                               filename ==
                                   IF Truthy(att.filename)
                                   THEN att.filename[1] ELSE DefaultFilename
                               content_type ==
                                   IF Truthy(att.content_type)
                                   THEN att.content_type[1]
                                   ELSE DefaultContentType
                           IN  [status |-> 200,
                                content |-> raw,
                                media_type |-> content_type,
                                content_disposition |->
                                    ContentDisposition(filename)]

(***************************************************************************)
(* Request workers: FastAPI runs each synchronous handler call on a thread *)
(* of its pool, so chat calls overlap between their store calls.           *)
(***************************************************************************)
Workers == 1..NumWorkers

Idle == [at |-> "idle"]

Turns(c) == IF c \in DOMAIN turns THEN turns[c] ELSE 0

PendingInserts(w) ==
    IF pc[w] = "store_user" THEN 2
    ELSE IF pc[w] = "store_assistant" THEN 1 ELSE 0

RECURSIVE SumPending(_)
SumPending(ws) ==
    IF ws = {} THEN 0
    ELSE LET w == CHOOSE x \in ws : TRUE
         IN  PendingInserts(w) + SumPending(ws \ {w})

MaxMessages == 2 * MaxTurns

MessageRoom == Len(db.message) + SumPending(Workers) + 2 <= MaxMessages

(***************************************************************************)
(* POST /conversations                                                     *)
(***************************************************************************)
create_conversation(title) ==
    LET t == IF Truthy(title) THEN title[1] ELSE NewChat
    IN  /\ Len(db.conversation) < MaxConversations
        /\ db' = create_document("conversation", [title |-> t])
        /\ nextOid' = nextOid + 1
        /\ clock' = clock + 1
        /\ last' = [op |-> "create_conversation", status |-> 200,
                    body |-> [id |-> StrOid(nextOid), title |-> t]]
        /\ UNCHANGED <<pc, loc, turns, uploads>>

ListConversations ==
    /\ last' = [op |-> "list_conversations"] @@ list_conversations
    /\ UNCHANGED <<db, nextOid, clock, pc, loc, turns, uploads>>

ListMessages(conversation_id) ==
    /\ last' = [op |-> "list_messages", conversation_id |-> conversation_id]
                  @@ list_messages(conversation_id)
    /\ UNCHANGED <<db, nextOid, clock, pc, loc, turns, uploads>>

(***************************************************************************)
(* POST /chat, one step per store call.                                    *)
(***************************************************************************)
ChatReject(w, request, created, detail) ==
    /\ last' = [op |-> "chat", request |-> request, made |-> <<>>,
                created |-> created] @@ HTTPException(400, detail)
    /\ UNCHANGED <<pc, loc, turns, uploads>>

ChatBegin_late_check(w, message, conversation_id, attachments) ==
    LET request == [message |-> message, conversation_id |-> conversation_id,
                    attachments |-> attachments]
        user_text == Strip(message)
        absent == ~Truthy(conversation_id)
        conv_id == IF absent THEN StrOid(nextOid) ELSE conversation_id[1]
        created == IF absent THEN <<nextOid>> ELSE <<>>
        title == IF Take(user_text, TitleLimit) # <<>>
                 THEN Take(user_text, TitleLimit) ELSE NewChat
    IN  /\ pc[w] = "idle"
        /\ IF user_text = <<>> /\ ~absent
           THEN /\ ChatReject(w, request, <<>>, "Message cannot be empty")
                /\ UNCHANGED <<db, nextOid, clock>>
           ELSE /\ IF absent
                   THEN /\ Len(db.conversation) < MaxConversations
                        /\ db' = create_document("conversation",
                                                 [title |-> title])
                        /\ nextOid' = nextOid + 1
                        /\ clock' = clock + 1
                   ELSE UNCHANGED <<db, nextOid, clock>>
                /\ IF user_text = <<>>
                   THEN ChatReject(w, request, created,
                                   "Message cannot be empty")
                   ELSE IF ~ObjectIdValid(conv_id)
                   THEN ChatReject(w, request, created,
                                   "Invalid conversation_id")
                   ELSE /\ MessageRoom
                        /\ pc' = [pc EXCEPT ![w] = "store_user"]
                        /\ loc' = [loc EXCEPT ![w] =
                                      [at |-> "chat", request |-> request,
                                       user_text |-> user_text,
                                       conv_id |-> conv_id,
                                       conv_oid |-> ObjectId(conv_id),
                                       created |-> created,
                                       made |-> <<>>]]
                        /\ last' = NoResponse
                        /\ UNCHANGED <<turns, uploads>>

ChatBegin(w, message, conversation_id, attachments) ==
    LET request == [message |-> message, conversation_id |-> conversation_id,
                    attachments |-> attachments]
        user_text == Strip(message)
        absent == ~Truthy(conversation_id)
        conv_id == IF absent THEN StrOid(nextOid) ELSE conversation_id[1]
        created == IF absent THEN <<nextOid>> ELSE <<>>
        title == IF Take(user_text, TitleLimit) # <<>>
                 THEN Take(user_text, TitleLimit) ELSE NewChat
    IN  /\ pc[w] = "idle"
        /\ IF user_text = <<>>
           THEN /\ ChatReject(w, request, <<>>, "Message cannot be empty")
                /\ UNCHANGED <<db, nextOid, clock>>
           ELSE /\ IF absent
                   THEN /\ Len(db.conversation) < MaxConversations
                        /\ db' = create_document("conversation",
                                                 [title |-> title])
                        /\ nextOid' = nextOid + 1
                        /\ clock' = clock + 1
                   ELSE UNCHANGED <<db, nextOid, clock>>
                /\ IF ~ObjectIdValid(conv_id)
                   THEN ChatReject(w, request, created,
                                   "Invalid conversation_id")
                   ELSE /\ MessageRoom
                        /\ pc' = [pc EXCEPT ![w] = "store_user"]
                        /\ loc' = [loc EXCEPT ![w] =
                                      [at |-> "chat", request |-> request,
                                       user_text |-> user_text,
                                       conv_id |-> conv_id,
                                       conv_oid |-> ObjectId(conv_id),
                                       created |-> created,
                                       made |-> <<>>]]
                        /\ last' = NoResponse
                        /\ UNCHANGED <<turns, uploads>>

ChatStoreUser_untrimmed(w) ==
    /\ pc[w] = "store_user"
    /\ db' = create_document("message",
                 [conversation_id |-> loc[w].conv_oid,
                  role |-> "user",
                  content |-> loc[w].request.message,
                  attachments |-> IF loc[w].request.attachments = None
                                  THEN <<>>
                                  ELSE loc[w].request.attachments[1]])
    /\ nextOid' = nextOid + 1
    /\ clock' = clock + 1
    /\ pc' = [pc EXCEPT ![w] = "store_assistant"]
    /\ loc' = [loc EXCEPT ![w].made = Append(@, nextOid)]
    /\ last' = NoResponse
    /\ UNCHANGED <<turns, uploads>>

ChatStoreUser(w) ==
    /\ pc[w] = "store_user"
    /\ db' = create_document("message",
                 [conversation_id |-> loc[w].conv_oid,
                  role |-> "user",
                  content |-> loc[w].user_text,
                  attachments |-> IF loc[w].request.attachments = None
                                  THEN <<>>
                                  ELSE loc[w].request.attachments[1]])
    /\ nextOid' = nextOid + 1
    /\ clock' = clock + 1
    /\ pc' = [pc EXCEPT ![w] = "store_assistant"]
    /\ loc' = [loc EXCEPT ![w].made = Append(@, nextOid)]
    /\ last' = NoResponse
    /\ UNCHANGED <<turns, uploads>>

ChatStoreAssistant_as_user(w) ==
    LET reply_text == generate_assistant_reply(loc[w].user_text)
        reply == [id |-> StrOid(nextOid),
                  conversation_id |-> loc[w].conv_id,
                  role |-> "assistant",
                  content |-> reply_text,
                  attachments |-> <<>>,
                  created_at |-> None]
    IN  /\ pc[w] = "store_assistant"
        /\ db' = create_document("message",
                     [conversation_id |-> loc[w].conv_oid,
                      role |-> "user",
                      content |-> reply_text,
                      attachments |-> <<>>])
        /\ nextOid' = nextOid + 1
        /\ clock' = clock + 1
        /\ pc' = [pc EXCEPT ![w] = "idle"]
        /\ loc' = [loc EXCEPT ![w] = Idle]
        /\ last' = [op |-> "chat", status |-> 200,
                    request |-> loc[w].request,
                    created |-> loc[w].created,
                    made |-> Append(loc[w].made, nextOid),
                    body |-> [conversation_id |-> loc[w].conv_id,
                              reply |-> reply]]
        /\ turns' = (loc[w].conv_oid :> Turns(loc[w].conv_oid) + 1) @@ turns
        /\ UNCHANGED uploads

ChatStoreAssistant(w) ==
    LET reply_text == generate_assistant_reply(loc[w].user_text)
        reply == [id |-> StrOid(nextOid),
                  conversation_id |-> loc[w].conv_id,
                  role |-> "assistant",
                  content |-> reply_text,
                  attachments |-> <<>>,
                  created_at |-> None]
    IN  /\ pc[w] = "store_assistant"
        /\ db' = create_document("message",
                     [conversation_id |-> loc[w].conv_oid,
                      role |-> "assistant",
                      content |-> reply_text,
                      attachments |-> <<>>])
        /\ nextOid' = nextOid + 1
        /\ clock' = clock + 1
        /\ pc' = [pc EXCEPT ![w] = "idle"]
        /\ loc' = [loc EXCEPT ![w] = Idle]
        /\ last' = [op |-> "chat", status |-> 200,
                    request |-> loc[w].request,
                    created |-> loc[w].created,
                    made |-> Append(loc[w].made, nextOid),
                    body |-> [conversation_id |-> loc[w].conv_id,
                              reply |-> reply]]
        /\ turns' = (loc[w].conv_oid :> Turns(loc[w].conv_oid) + 1) @@ turns
        /\ UNCHANGED uploads

(***************************************************************************)
(* POST /attachments                                                       *)
(***************************************************************************)
UploadReject(detail) ==
    /\ last' = [op |-> "upload_attachment"] @@ HTTPException(400, detail)
    /\ UNCHANGED <<db, nextOid, clock, pc, loc, turns, uploads>>

upload_attachment(data, filename, content_type, conversation_id, message_id) ==
    LET b64 == b64encode(data)
    IN  /\ Len(db.attachment) < MaxAttachments
        /\ IF Truthy(conversation_id) /\ ~ObjectIdValid(conversation_id[1])
           THEN UploadReject("Invalid conversation_id")
           ELSE IF Truthy(message_id) /\ ~ObjectIdValid(message_id[1])
           THEN UploadReject("Invalid message_id")
           ELSE /\ db' = create_document("attachment",
                             [conversation_id |->
                                  IF Truthy(conversation_id)
                                  THEN Some(ObjectId(conversation_id[1]))
                                  ELSE None,
                              message_id |->
                                  IF Truthy(message_id)
                                  THEN Some(ObjectId(message_id[1])) ELSE None,
                              filename |-> filename,
                              content_type |-> content_type,
                              size |-> Len(data),
                              data_base64 |-> b64])
                /\ nextOid' = nextOid + 1
                /\ clock' = clock + 1
                /\ last' = [op |-> "upload_attachment", status |-> 200,
                            body |-> [id |-> StrOid(nextOid),
                                      filename |-> filename,
                                      content_type |-> content_type,
                                      size |-> Len(data),
                                      download_url |->
                                          DownloadPrefix \o StrOid(nextOid)]]
                /\ uploads' = (nextOid :> [data |-> data,
                                           filename |-> filename,
                                           content_type |-> content_type])
                                 @@ uploads
                /\ UNCHANGED <<pc, loc, turns>>

DownloadAttachment(attachment_id) ==
    /\ last' = [op |-> "download_attachment",
                attachment_id |-> attachment_id]
                  @@ download_attachment(attachment_id)
    /\ UNCHANGED <<db, nextOid, clock, pc, loc, turns, uploads>>

(***************************************************************************)
(* A call of the reply generator on its own.                               *)
(***************************************************************************)
Generate(user_text) ==
    /\ last = [op |-> "input", status |-> 0, user_text |-> user_text]
    /\ last' = [op |-> "generate", user_text |-> user_text, status |-> 200,
                reply |-> generate_assistant_reply(user_text)]
    /\ UNCHANGED <<db, nextOid, clock, pc, loc, turns, uploads>>

(***************************************************************************)
(* A message document written to the shared collection by another client   *)
(* of the store, without the created_at field that list_messages tests for.*)
(***************************************************************************)
InsertUnstampedMessage(conv_oid, content) ==
    /\ Len(db.message) + SumPending(Workers) < MaxMessages
    /\ db' = [db EXCEPT !.message =
                 Append(@, [id |-> nextOid, created_at |-> None,
                            conversation_id |-> conv_oid, role |-> "user",
                            content |-> content, attachments |-> <<>>])]
    /\ nextOid' = nextOid + 1
    /\ last' = NoResponse
    /\ UNCHANGED <<clock, pc, loc, turns, uploads>>

(***************************************************************************)
(* Inputs.                                                                 *)
(***************************************************************************)
\* a well-formed identifier the store never assigned (it assigns from 1)
UnknownId == StrOid(0)

BadIds ==
    { SubSeq(StrOid(1), 1, OidLen - 1),
      [i \in 1..OidLen |-> IF i = OidLen THEN "g" ELSE "0"] }

Ids(coll) == {db[coll][i].id : i \in 1..Len(db[coll])}

IdStrings(coll) == BadIds \cup {UnknownId} \cup {StrOid(n) : n \in Ids(coll)}

OptionalIds(coll) == {None, Some(<<>>)} \cup {Some(s) : s \in IdStrings(coll)}

TextHi == << " ", "h", "i", " " >>

TextBlank == << " ", "\t" >>

TextJoke == << "J", "o", "k", "e", "?" >>

ChatTexts == {TextBlank, TextHi, TextJoke}

Titles == {None, Some(<<>>), Some(<<"T">>)}

FileName == << "a", ".", "t" >>

ContentType == << "t", "/", "p" >>

\* <<filename, content_type>> of an upload
FileMeta ==
    { <<None, Some(ContentType)>>, <<Some(<<>>), None>>,
      <<Some(FileName), Some(<<>>)>>, <<Some(FileName), Some(ContentType)>> }

\* <<conversation_id, message_id>> of an upload
UploadIds ==
    {<<None, None>>, <<Some(<<>>), Some(UnknownId)>>}
       \cup {<<Some(s), None>> : s \in BadIds}
       \cup {<<None, Some(s)>> : s \in BadIds}

Bytes == {77, 255}

RECURSIVE SeqsUpTo(_, _)
SeqsUpTo(S, n) ==
    IF n = 0 THEN {<<>>}
    ELSE LET shorter == SeqsUpTo(S, n - 1)
         IN  shorter \cup {Append(s, x) : s \in shorter, x \in S}

Payloads == SeqsUpTo(Bytes, MaxPayloadLen)

LongWord == [i \in 1..150 |-> IF i % 2 = 0 THEN "q" ELSE "r"]

Tokens ==
    { <<" ">>, WordJoke, << "J", "o", "K", "e" >>, WordHello,
      << "H", "i" >>, WordHelp, << "a", "b", "c", "d", "e", "f" >>,
      << "v", "w", "x", "y", "z" >>, LongWord }

RECURSIVE Concat(_)
Concat(ss) == IF ss = <<>> THEN <<>> ELSE Head(ss) \o Concat(Tail(ss))

GenTexts == {Concat(ss) : ss \in SeqsUpTo(Tokens, MaxTokens)}

(***************************************************************************)
(* Specifications.                                                         *)
(***************************************************************************)
Init ==
    /\ db = [conversation |-> <<>>, message |-> <<>>, attachment |-> <<>>]
    /\ nextOid = 1
    /\ clock = 1
    /\ pc = [w \in Workers |-> "idle"]
    /\ loc = [w \in Workers |-> Idle]
    /\ last = NoResponse
    /\ turns = <<>>
    /\ uploads = <<>>

ExistingConversations == {Some(StrOid(n)) : n \in Ids("conversation")}

CreateConversation == \E title \in Titles : create_conversation(title)

\* a client that waits for each response before its next request
Client == CHOOSE w \in Workers : \A v \in Workers : w <= v

Chat ==
    \E message \in ChatTexts, conversation_id \in OptionalIds("conversation"),
       attachments \in {None, Some(<<FileName>>)} :
        ChatBegin(Client, message, conversation_id, attachments)

StoreUser == \E w \in Workers : ChatStoreUser(w)

StoreAssistant == \E w \in Workers : ChatStoreAssistant(w)

ListMessagesAny == \E s \in IdStrings("conversation") : ListMessages(s)

Next ==
    \/ Chat
    \/ StoreUser
    \/ StoreAssistant
    \/ ListMessagesAny

Spec == Init /\ [][Next]_vars

(***************************************************************************)
(* The store under every write operation.                                  *)
(***************************************************************************)
UploadSmall ==
    \E conversation_id \in {None} \cup ExistingConversations :
        upload_attachment(<<77>>, Some(FileName), None,
                          conversation_id, None)

ChatAnywhere ==
    \E conversation_id \in
           {None, Some(UnknownId)} \cup
           {Some(StrOid(n)) : n \in Ids("conversation") \cup Ids("attachment")} :
        ChatBegin(Client, TextHi, conversation_id, None)

NextStore ==
    \/ CreateConversation
    \/ ChatAnywhere
    \/ StoreUser
    \/ StoreAssistant
    \/ UploadSmall
    \/ ListConversations

SpecStore == Init /\ [][NextStore]_vars

(***************************************************************************)
(* Overlapping chat calls.                                                 *)
(***************************************************************************)
ChatConcurrent ==
    \E w \in Workers, message \in {TextHi, TextJoke},
       conversation_id \in {None} \cup ExistingConversations :
        ChatBegin(w, message, conversation_id, Some(<<TextHi>>))

NextConc ==
    \/ ChatConcurrent
    \/ StoreUser
    \/ StoreAssistant

SpecConc == Init /\ [][NextConc]_vars

(***************************************************************************)
(* Attachments.                                                            *)
(***************************************************************************)
Upload ==
    \E data \in Payloads, meta \in FileMeta, ids \in UploadIds :
        upload_attachment(data, meta[1], meta[2], ids[1], ids[2])

Download == \E s \in IdStrings("attachment") : DownloadAttachment(s)

NextAtt ==
    \/ Upload
    \/ Download

SpecAtt == Init /\ [][NextAtt]_vars

(***************************************************************************)
(* The reply generator over texts built from keyword and filler tokens.    *)
(***************************************************************************)
InitGen ==
    /\ db = [conversation |-> <<>>, message |-> <<>>, attachment |-> <<>>]
    /\ nextOid = 1
    /\ clock = 1
    /\ pc = [w \in Workers |-> "idle"]
    /\ loc = [w \in Workers |-> Idle]
    /\ last \in {[op |-> "input", status |-> 0, user_text |-> t] :
                     t \in GenTexts}
    /\ turns = <<>>
    /\ uploads = <<>>

NextGen == \E user_text \in GenTexts : Generate(user_text)

SpecGen == InitGen /\ [][NextGen]_vars

(***************************************************************************)
(* The message collection shared with a writer that sets no created_at.    *)
(***************************************************************************)
ChatPlain ==
    \E conversation_id \in {None} \cup ExistingConversations :
        ChatBegin(Client, TextHi, conversation_id, None)

InsertUnstamped ==
    \E n \in Ids("conversation") : InsertUnstampedMessage(n, TextJoke)

NextExt ==
    \/ ChatPlain
    \/ StoreUser
    \/ StoreAssistant
    \/ InsertUnstamped
    \/ ListMessagesAny

SpecExt == Init /\ [][NextExt]_vars

(***************************************************************************)
(* Properties.                                                             *)
(***************************************************************************)
Range(s) == {s[i] : i \in 1..Len(s)}

MessagesOf(c) == SelectSeq(db.message, LAMBDA d : d.conversation_id = c)

InFlight(c) == \E w \in Workers : pc[w] # "idle" /\ loc[w].conv_oid = c

IsAppend(new, old) ==
    Len(new) = Len(old) + 1 /\ SubSeq(new, 1, Len(old)) = old

\* C1: a chat call with non-empty text and no conversationId creates exactly
\* one new conversation, then the user message (content = trimmed text), then
\* the assistant message whose content is generate(text); nothing else.
ChatCreatesStep ==
    \A w \in Workers :
        /\ (/\ pc[w] = "idle"
            /\ pc'[w] = "store_user"
            /\ ~Truthy(loc'[w].request.conversation_id)) =>
              /\ db'.message = db.message
              /\ IsAppend(db'.conversation, db.conversation)
              /\ db'.conversation[Len(db'.conversation)].id = loc'[w].conv_oid
              /\ loc'[w].conv_oid \notin Ids("conversation")
        /\ (/\ pc[w] = "store_user"
            /\ pc'[w] = "store_assistant"
            /\ ~Truthy(loc[w].request.conversation_id)) =>
              /\ db'.conversation = db.conversation
              /\ IsAppend(db'.message, db.message)
              /\ LET m == db'.message[Len(db'.message)]
                 IN  /\ m.role = "user"
                     /\ m.content = Strip(loc[w].request.message)
                     /\ m.conversation_id = loc[w].conv_oid
        /\ (/\ pc[w] = "store_assistant"
            /\ pc'[w] = "idle"
            /\ ~Truthy(loc[w].request.conversation_id)) =>
              /\ db'.conversation = db.conversation
              /\ IsAppend(db'.message, db.message)
              /\ LET m == db'.message[Len(db'.message)]
                     u == db.message[Len(db.message)]
                 IN  /\ m.role = "assistant"
                     /\ m.content =
                           generate_assistant_reply(loc[w].request.message)
                     /\ m.conversation_id = loc[w].conv_oid
                     /\ last'.status = 200
                     /\ last'.made = <<loc[w].made[1], m.id>>
                     /\ Len(loc[w].made) = 1
                     /\ \E i \in 1..Len(db.message) :
                           /\ db.message[i].id = loc[w].made[1]
                           /\ db.message[i].role = "user"
                           /\ db.message[i].conversation_id = loc[w].conv_oid
                     /\ last'.created = <<loc[w].conv_oid>>
                     /\ last'.body.conversation_id = StrOid(loc[w].conv_oid)
                     /\ last'.body.reply.content = m.content

ChatCreates == [][ChatCreatesStep]_vars

ChatCreatesWitness ==
    /\ last.op = "chat"
    /\ last.status = 200
    /\ ~Truthy(last.request.conversation_id)
    /\ Len(MessagesOf(last.created[1])) = 2

\* C2: every stored message's conversation identifier is the identifier of
\* a stored conversation.
MessagesReferenceConversations ==
    \A i \in 1..Len(db.message) :
        db.message[i].conversation_id \in Ids("conversation")

\* C3: listConversations returns all stored conversations, most recently
\* created first.
CreatedAtOf(id) ==
    (CHOOSE d \in Range(db.conversation) : StrOid(d.id) = id).created_at[1]

ListConversationsNewestFirst ==
    last.op = "list_conversations" =>
        /\ last.status = 200
        /\ Len(last.body) = Len(db.conversation)
        /\ {r.id : r \in Range(last.body)} =
              {StrOid(n) : n \in Ids("conversation")}
        /\ \A i, j \in 1..Len(last.body) :
              i < j => CreatedAtOf(last.body[i].id) >= CreatedAtOf(last.body[j].id)

\* C4: once N chat turns on a conversation have completed and none is under
\* way, listMessages for it returns exactly 2N messages, all of that
\* conversation, in ascending creation time, whatever other conversations hold.
ListMessagesTwoPerTurn ==
    (/\ last.op = "list_messages"
     /\ last.conversation_id \notin BadIds
     /\ ~InFlight(ObjectId(last.conversation_id))) =>
        /\ last.status = 200
        /\ Len(last.body) = 2 * Turns(ObjectId(last.conversation_id))
        /\ \A i \in 1..Len(last.body) :
              /\ last.body[i].conversation_id = last.conversation_id
              /\ last.body[i].created_at # None
        /\ \A i, j \in 1..Len(last.body) :
              i < j => last.body[i].created_at[1][2]
                          <= last.body[j].created_at[1][2]

ListMessagesWitness ==
    /\ last.op = "list_messages"
    /\ last.status = 200
    /\ ~InFlight(ObjectId(last.conversation_id))
    /\ Len(last.body) >= 2
    /\ Len(db.message) > Len(last.body)

\* C7 as stated: chat with blank text, or with any supplied conversationId
\* that is not a valid identifier, is rejected with 400 and changes nothing
\* in the store.
SuppliedInvalid(request) ==
    /\ request.conversation_id # None
    /\ request.conversation_id[1] \notin
          {StrOid(n) : n \in 0..nextOid}

Rejected == last'.status = 400 /\ db' = db /\ pc' = pc

BadAsStated(request) ==
    Strip(request.message) = <<>> \/ SuppliedInvalid(request)

ChatRejectsAnySuppliedInvalid ==
    [][(last'.op = "chat" /\ BadAsStated(last'.request)) => Rejected]_vars

\* C7, amended: chat with blank text, or with a supplied non-empty
\* conversationId that is not a valid identifier, is rejected with 400 and
\* changes nothing in the store; an empty conversationId counts as absent.
BadNonEmpty(request) ==
    \/ Strip(request.message) = <<>>
    \/ SuppliedInvalid(request) /\ request.conversation_id[1] # <<>>

ChatRejectsInvalid ==
    [][(last'.op = "chat" /\ BadNonEmpty(last'.request)) => Rejected]_vars

ChatRejectsWitness ==
    /\ last.op = "chat"
    /\ last.status = 400
    /\ Strip(last.request.message) # <<>>
    /\ last.request.conversation_id[1] \in BadIds
    /\ db.conversation # <<>>

\* C5 as stated: a download of an uploaded attachment returns the uploaded
\* bytes, the uploaded filename and the uploaded content-type, also when the
\* filename or content-type was empty or absent.
ReturnedFilename(r) ==
    SubSeq(r.content_disposition, Len(DispositionPrefix) + 1,
           Len(r.content_disposition) - 1)

DownloadedUpload ==
    /\ last.op = "download_attachment"
    /\ last.attachment_id \in {StrOid(n) : n \in DOMAIN uploads}

UploadOf(r) == uploads[CHOOSE n \in DOMAIN uploads : StrOid(n) = r.attachment_id]

RoundTripExact ==
    DownloadedUpload =>
        /\ last.status = 200
        /\ last.content = UploadOf(last).data
        /\ Some(ReturnedFilename(last)) = UploadOf(last).filename
        /\ Some(last.media_type) = UploadOf(last).content_type

\* C5, amended: the download returns the uploaded bytes; it returns the
\* uploaded filename and content-type when they were non-empty, and
\* "download" / "application/octet-stream" in place of an empty or absent one.
RoundTripWithDefaults ==
    DownloadedUpload =>
        /\ last.status = 200
        /\ last.content = UploadOf(last).data
        /\ ReturnedFilename(last) =
              IF UploadOf(last).filename \in {None, Some(<<>>)}
              THEN DefaultFilename ELSE UploadOf(last).filename[1]
        /\ last.media_type =
              IF UploadOf(last).content_type \in {None, Some(<<>>)}
              THEN DefaultContentType ELSE UploadOf(last).content_type[1]

RoundTripWitness ==
    /\ DownloadedUpload
    /\ last.status = 200
    /\ Len(last.content) = 2
    /\ UploadOf(last).filename = None
    /\ UploadOf(last).content_type \notin {None, Some(<<>>)}

\* C6: a download with a malformed identifier is rejected with 400, one with
\* a well-formed identifier of no stored attachment with 404, and neither
\* returns a payload.
DownloadRejects ==
    last.op = "download_attachment" =>
        /\ last.attachment_id \in BadIds =>
              last.status = 400 /\ "content" \notin DOMAIN last
        /\ (/\ last.attachment_id \notin BadIds
            /\ last.attachment_id \notin
                  {StrOid(n) : n \in Ids("attachment")}) =>
              last.status = 404 /\ "content" \notin DOMAIN last

DownloadRejectsWitness ==
    /\ last.op = "download_attachment"
    /\ last.attachment_id = UnknownId
    /\ last.status = 404
    /\ db.attachment # <<>>

\* C8: generate answers by the first rule that matches, in the order empty,
\* "joke", "hello"/"hi", "help", shorter than 12, long template; a text with
\* "joke" in any case gets the joke whatever else it contains.
HasWord(text, word) == Contains(Lower(text), word)

FirstMatchWins ==
    last.op = "generate" =>
        LET text == last.user_text
            t == Strip(text)
            joke == HasWord(text, WordJoke)
            greet == HasWord(text, WordHello) \/ HasWord(text, WordHi)
            help == HasWord(text, WordHelp)
        IN  /\ t = <<>> => last.reply = ReplyEmpty
            /\ joke => last.reply = ReplyJoke
            /\ (~joke /\ greet) => last.reply = ReplyHello
            /\ (~joke /\ ~greet /\ help) => last.reply = ReplyHelp
            /\ (t # <<>> /\ ~joke /\ ~greet /\ ~help /\ Len(t) < 12) =>
                  last.reply = ShortPrefix \o t \o ShortSuffix
            /\ (~joke /\ ~greet /\ ~help /\ Len(t) >= 12) =>
                  /\ Len(last.reply) =
                        Len(LongPrefix) + Len(LongSuffix)
                           + (IF Len(t) < 300 THEN Len(t) ELSE 300)
                  /\ \A i \in 1..Len(last.reply) :
                        last.reply[i] =
                           IF i <= Len(LongPrefix) THEN LongPrefix[i]
                           ELSE IF i <= Len(last.reply) - Len(LongSuffix)
                           THEN t[i - Len(LongPrefix)]
                           ELSE LongSuffix[i - (Len(last.reply)
                                                  - Len(LongSuffix))]

FirstMatchWitness ==
    /\ last.op = "generate"
    /\ HasWord(last.user_text, WordJoke)
    /\ HasWord(last.user_text, WordHello)
    /\ HasWord(last.user_text, WordHelp)
    /\ last.user_text # Lower(last.user_text)
    /\ last.reply = ReplyJoke

\* C9: however chat calls on one conversation overlap, each call stores its
\* user message before its assistant message and stores exactly these two.
RECURSIVE SumTurns(_)
SumTurns(cs) ==
    IF cs = {} THEN 0
    ELSE LET c == CHOOSE x \in cs : TRUE
         IN  turns[c] + SumTurns(cs \ {c})

RECURSIVE SumMade(_)
SumMade(ws) ==
    IF ws = {} THEN 0
    ELSE LET w == CHOOSE x \in ws : TRUE
         IN  (IF pc[w] = "idle" THEN 0 ELSE Len(loc[w].made))
                + SumMade(ws \ {w})

MessageAt(id) == CHOOSE i \in 1..Len(db.message) : db.message[i].id = id

Stored(id) == \E i \in 1..Len(db.message) : db.message[i].id = id

OwnMessagesInOrder ==
    /\ Len(db.message) = 2 * SumTurns(DOMAIN turns) + SumMade(Workers)
    /\ \A w \in Workers :
          /\ pc[w] = "store_user" => loc[w].made = <<>>
          /\ pc[w] = "store_assistant" =>
                /\ Len(loc[w].made) = 1
                /\ Stored(loc[w].made[1])
                /\ LET u == db.message[MessageAt(loc[w].made[1])]
                   IN  /\ u.role = "user"
                       /\ u.content = loc[w].user_text
                       /\ u.conversation_id = loc[w].conv_oid
    /\ (last.op = "chat" /\ last.status = 200) =>
          /\ Len(last.made) = 2
          /\ Stored(last.made[1])
          /\ Stored(last.made[2])
          /\ MessageAt(last.made[1]) < MessageAt(last.made[2])
          /\ LET u == db.message[MessageAt(last.made[1])]
                 a == db.message[MessageAt(last.made[2])]
             IN  /\ u.role = "user"
                 /\ a.role = "assistant"
                 /\ u.conversation_id = a.conversation_id
                 /\ StrOid(u.conversation_id) = last.body.conversation_id
                 /\ u.content = Strip(last.request.message)
                 /\ a.content = generate_assistant_reply(u.content)

InterleavedWitness ==
    /\ last.op = "chat"
    /\ last.status = 200
    /\ \E c \in Ids("conversation") :
          LET ms == MessagesOf(c)
          IN  /\ Len(ms) = 4
              /\ ms[1].role = "user"
              /\ ms[2].role = "user"
              /\ ms[3].role = "assistant"
              /\ ms[4].role = "assistant"

\* C10: listMessages with a valid conversationId succeeds and returns every
\* message of the conversation, those without a creation timestamp with a
\* null timestamp.
ListMessagesToleratesUnstamped ==
    (last.op = "list_messages" /\ last.conversation_id \notin BadIds) =>
        /\ last.status = 200
        /\ LET ms == MessagesOf(ObjectId(last.conversation_id))
           IN  /\ Len(last.body) = Len(ms)
               /\ \A i \in 1..Len(ms) :
                     \E j \in 1..Len(last.body) :
                        /\ last.body[j].id = StrOid(ms[i].id)
                        /\ ms[i].created_at = None =>
                              last.body[j].created_at = None
====
